---- MODULE Spec2Model ----
(***************************************************************************)
(* Ledger core of the traffic-signal management system (blockchain.py):   *)
(* Transaction, Block and Blockchain, with hashing, proof-of-work mining,  *)
(* validation and chain replacement; and the arbitration of the backend    *)
(* application (backend/app.py): lane registry, determine_traffic_lights   *)
(* and the recording of signal changes in the ledger.                      *)
(*                                                                         *)
(* SHA-256 is modelled as an ideal hash: the first DigestLen characters of *)
(* the hex digest (the only ones proof-of-work looks at) are computed      *)
(* arithmetically from the serialized block, and the rest of the digest is *)
(* represented by the serialized block itself, so that distinct inputs     *)
(* have distinct digests (collision resistance).                           *)
(***************************************************************************)
EXTENDS Integers, Sequences, FiniteSets, TLC

\* ------------------------------------------------------------------ bounds
DigestLen == 2       \* modelled leading characters of a hex digest
HashBase == 3        \* number of distinct characters of a digest position
MaxBlockSize == 2    \* block_size ranges over 1..MaxBlockSize
MaxTx == 3           \* accepted transactions per run
MaxClock == 1        \* the clock ticks at most this many times
MaxReplace == 1      \* replace_chain calls per run
MaxCount == 1        \* vehicle counts range over 0..MaxCount
MaxCycles == 2       \* calls of determine_traffic_lights per run
MaxGreenTime == 2    \* green_time of a road, in seconds: 1..MaxGreenTime
MaxDifficulty == 3   \* difficulty handed to mine_block: 0..MaxDifficulty
MaxNonce == 10       \* nonces a search taken step by step tries: 0..MaxNonce
MaxThreads == 2      \* analysis_worker threads started per run
MaxVehicles == 42    \* vehicle counts fed to calculate_green_time: 0..MaxVehicles

\* ------------------------------------------------------------ input spaces
None == "None"
SignalInputs == {"GREEN", "RED", "YELLOW", "INIT", "REWARD", "PURPLE"}
\* <<lane_id, vehicle_count, green_time>>: at the validation boundary, and with
\* each one of them below it
NumericInputs == {<<0, 0, 0>>, <<-1, 0, 0>>, <<0, -1, 0>>, <<0, 0, -1>>}
\* difficulty ranges from 0 to the default of Blockchain.__init__
DefaultDifficulty == 2
RewardNodes == {None, "main"}
BlockFields == {"index", "timestamp", "transactions", "previous_hash", "nonce"}

\* --------------------------------------------------------------- helpers
RECURSIVE Pow(_, _)
Pow(b, n) == IF n = 0 THEN 1 ELSE b * Pow(b, n - 1)

HashMod == Pow(HashBase, DigestLen)

Min(a, b) == IF a < b THEN a ELSE b

\* s[:n] of Python for n >= 0
Take(s, n) == SubSeq(s, 1, Min(n, Len(s)))

\* s[n:] of Python for n >= 0
Drop(s, n) == SubSeq(s, Min(n, Len(s)) + 1, Len(s))

\* "0" * n
Zeros(n) == [i \in 1..n |-> 0]

\* the DigestLen leading characters of the digest whose leading value is v
Digits(v) == [i \in 1..DigestLen |-> (v \div Pow(HashBase, DigestLen - i)) % HashBase]

RECURSIVE HeadVal(_)
HeadVal(d) == IF Len(d) = 0 THEN 0
              ELSE HeadVal(SubSeq(d, 1, Len(d) - 1)) * HashBase + d[Len(d)]

StateCode(s) == CASE s = "INIT" -> 0 [] s = "GREEN" -> 1 [] s = "RED" -> 2
                  [] s = "YELLOW" -> 3 [] s = "REWARD" -> 4 [] OTHER -> 5

NodeCode(n) == CASE n = "main" -> 0 [] n = "genesis" -> 1 [] OTHER -> 2

MetaCode(m) == CASE m = "{}" -> 0 [] m = "genesis" -> 1 [] m = "mining_reward" -> 2
                 [] OTHER -> 3

BoolCode(b) == IF b THEN 1 ELSE 0

\* ----------------------------------------------------------- Transaction
Transaction(lane_id, signal_state, vehicle_count, green_time, emergency_vehicle, node_id, metadata, clock) ==
    [lane_id |-> lane_id, signal_state |-> signal_state,
     vehicle_count |-> vehicle_count, green_time |-> green_time,
     emergency_vehicle |-> emergency_vehicle, node_id |-> node_id,
     timestamp |-> clock, metadata |-> metadata]

\* Transaction.to_dict as json.dumps(sort_keys=True) writes it: values in key order
tx_to_dict(tx) ==
    <<tx.emergency_vehicle, tx.green_time, tx.lane_id, tx.metadata, tx.node_id,
      tx.signal_state, tx.timestamp, tx.vehicle_count>>

\* ----------------------------------------------------------------- Block
\* json.dumps({...}, sort_keys=True) of calculate_hash: values in key order
block_string(b) ==
    <<b.index, b.nonce, b.previous_hash, b.timestamp,
      [i \in 1..Len(b.transactions) |-> tx_to_dict(b.transactions[i])]>>

TxMix(t) == BoolCode(t[1]) + 2 * t[2] + 3 * t[3] + 5 * MetaCode(t[4])
            + 7 * NodeCode(t[5]) + 4 * StateCode(t[6]) + t[7] + 2 * t[8]

RECURSIVE SumTxMix(_)
SumTxMix(ts) == IF Len(ts) = 0 THEN 0
                ELSE (SumTxMix(SubSeq(ts, 1, Len(ts) - 1)) * 2 + TxMix(ts[Len(ts)])) % HashMod

\* leading value of the digest of a serialized block
Mix(s) == (s[1] * 5 + s[2] + HeadVal(s[3].head) * 2 + s[4] * 7 + SumTxMix(s[5]) + 1) % HashMod

\* hashlib.sha256(s.encode()).hexdigest()
sha256(s) == [head |-> Digits(Mix(s)), tail |-> s]

calculate_hash(b) == sha256(block_string(b))

\* "0" * 64, the previous_hash of the genesis block
ZeroHash == [head |-> Zeros(DigestLen), tail |-> <<>>]

\* Block.__init__
Block(index, transactions, previous_hash, clock) ==
    LET b == [index |-> index, timestamp |-> clock, transactions |-> transactions,
              previous_hash |-> previous_hash, nonce |-> 0, hash |-> ZeroHash]
    IN [b EXCEPT !.hash = calculate_hash(b)]

\* Block.mine_block: the nonce search, run to its end
RECURSIVE mine_block(_, _)
mine_block(b, d) ==
    IF Take(b.hash.head, d) = Zeros(d) THEN b
    ELSE LET b1 == [b EXCEPT !.nonce = @ + 1]
         IN mine_block([b1 EXCEPT !.hash = calculate_hash(b1)], d)

\* ------------------------------------------------------------ Blockchain
VARIABLES chain, pending_transactions, difficulty, block_size, now,
          op, ret, accepted, mined, rewarded, tampered, replaced

\* the state of the backend application around the ledger (backend/app.py);
\* cycles counts the calls of determine_traffic_lights and last_status keeps
\* the is_green of every lane as the last call left it
VARIABLES lanes, previous_signal_states, analysis_running, cycles, last_status

appVars == <<lanes, previous_signal_states, analysis_running, cycles, last_status>>

\* the state of the standalone scheduler loop (main.py): the active road, the
\* is_green of every road, the hasEmergencyVehicle and green_time fields of
\* the road records, the time since start_time, and the place of the loop
VARIABLES active_road, road_is_green, hasEmergencyVehicle, road_green_time,
          green_elapsed, sched_pc

schedVars == <<active_road, road_is_green, hasEmergencyVehicle, road_green_time,
               green_elapsed, sched_pc>>

\* a request to /api/blockchain/mine on its way through
\* mine_pending_transactions: the place of the request's thread and the
\* locals of the call
VARIABLES route_pc, transactions_to_mine, pending_rest, new_block

routeVars == <<route_pc, transactions_to_mine, pending_rest, new_block>>

\* a request to /api/start-analysis on its way through its call of
\* determine_traffic_lights: the place of the request's thread
VARIABLES start_pc

startVars == <<start_pc>>

\* the analysis_worker threads start_analysis has started, each with its
\* place: not started yet, at the test of its while loop, inside the loop, or
\* returned
VARIABLES worker_pc

workerVars == <<worker_pc>>

Threads == 1..MaxThreads

\* a call of Block.mine_block taken step by step: its place, the block it
\* works on (<<>> before the first call) and its difficulty argument
VARIABLES pow_pc, pow_block, pow_difficulty

powVars == <<pow_pc, pow_block, pow_difficulty>>

\* the state outside the thread of the mine request
notRoute == <<schedVars, startVars, workerVars, powVars>>

\* the state of the threads taken step by step
concVars == <<routeVars, startVars, workerVars, powVars>>

auxVars == <<schedVars, concVars>>

vars == <<chain, pending_transactions, difficulty, block_size, now,
          op, ret, accepted, mined, rewarded, tampered, replaced, appVars,
          auxVars>>

create_genesis_block(clock) ==
    Block(0, <<Transaction(0, "INIT", 0, 0, FALSE, "genesis", "genesis", clock)>>,
          ZeroHash, clock)

get_latest_block(c) == c[Len(c)]

\* validate_transaction without its green_time check
validate_transaction_no_green_time(tx) ==
    /\ ~(tx.lane_id < 0)
    /\ tx.signal_state \in {"GREEN", "RED", "YELLOW", "INIT"}
    /\ ~(tx.vehicle_count < 0)

validate_transaction(tx) ==
    /\ ~(tx.lane_id < 0)
    /\ tx.signal_state \in {"GREEN", "RED", "YELLOW", "INIT"}
    /\ ~(tx.vehicle_count < 0)
    /\ ~(tx.green_time < 0)

\* the new block linked to the genesis block instead of the latest block
NewBlock_genesis_link(c, txs, d, clock) ==
    mine_block(Block(Len(c), txs, c[1].hash, clock), d)

\* the new block appended without the proof-of-work search
NewBlock_unmined(c, txs, d, clock) ==
    Block(Len(c), txs, get_latest_block(c).hash, clock)

\* the new block numbered from 1 instead of from the chain's length
NewBlock_index_ahead(c, txs, d, clock) ==
    mine_block(Block(Len(c) + 1, txs, get_latest_block(c).hash, clock), d)

\* the block mine_pending_transactions builds from the pool it takes
NewBlock(c, txs, d, clock) ==
    mine_block(Block(Len(c), txs, get_latest_block(c).hash, clock), d)

\* mining that overwrites the latest block instead of appending
mine_pending_transactions_overwrite(c, pool, node, d, bs, clock) ==
    IF Len(pool) = 0 THEN [chain |-> c, pending |-> pool, block |-> <<>>]
    ELSE LET p1 == IF node # None
                   THEN Append(pool, Transaction(0, "REWARD", 0, 0, FALSE, node,
                                                 "mining_reward", clock))
                   ELSE pool
             nb == NewBlock(c, Take(p1, bs), d, clock)
         IN [chain |-> [c EXCEPT ![Len(c)] = nb], pending |-> Drop(p1, bs),
             block |-> <<nb>>]

\* mining that builds and returns the block but never appends it
mine_pending_transactions_no_append(c, pool, node, d, bs, clock) ==
    IF Len(pool) = 0 THEN [chain |-> c, pending |-> pool, block |-> <<>>]
    ELSE LET p1 == IF node # None
                   THEN Append(pool, Transaction(0, "REWARD", 0, 0, FALSE, node,
                                                 "mining_reward", clock))
                   ELSE pool
             nb == NewBlock(c, Take(p1, bs), d, clock)
         IN [chain |-> c, pending |-> Drop(p1, bs), block |-> <<nb>>]

\* mining that appends the reward transaction before it looks at the pool
mine_pending_transactions_reward_first(c, pool, node, d, bs, clock) ==
    LET p1 == IF node # None
              THEN Append(pool, Transaction(0, "REWARD", 0, 0, FALSE, node,
                                            "mining_reward", clock))
              ELSE pool
    IN IF Len(p1) = 0 THEN [chain |-> c, pending |-> pool, block |-> <<>>]
       ELSE LET nb == NewBlock(c, Take(p1, bs), d, clock)
            IN [chain |-> Append(c, nb), pending |-> Drop(p1, bs), block |-> <<nb>>]

\* mine_pending_transactions: the chain and pool it leaves and the block it
\* returns (<<>> for None, <<b>> for the mined block b)
mine_pending_transactions(c, pool, node, d, bs, clock) ==
    IF Len(pool) = 0 THEN [chain |-> c, pending |-> pool, block |-> <<>>]
    ELSE LET p1 == IF node # None
                   THEN Append(pool, Transaction(0, "REWARD", 0, 0, FALSE, node,
                                                 "mining_reward", clock))
                   ELSE pool
             nb == NewBlock(c, Take(p1, bs), d, clock)
         IN [chain |-> Append(c, nb), pending |-> Drop(p1, bs), block |-> <<nb>>]

\* add_transaction inserting at the head of the pool
add_transaction_prepend(c, pool, tx, d, bs, clock) ==
    IF ~validate_transaction(tx)
    THEN [chain |-> c, pending |-> pool, ok |-> FALSE, block |-> <<>>]
    ELSE LET p1 == <<tx>> \o pool
         IN IF Len(p1) >= bs
            THEN LET m == mine_pending_transactions(c, p1, None, d, bs, clock)
                 IN [chain |-> m.chain, pending |-> m.pending, ok |-> TRUE,
                     block |-> m.block]
            ELSE [chain |-> c, pending |-> p1, ok |-> TRUE, block |-> <<>>]

\* add_transaction mining only once the pool exceeds block_size
add_transaction_late_mine(c, pool, tx, d, bs, clock) ==
    IF ~validate_transaction(tx)
    THEN [chain |-> c, pending |-> pool, ok |-> FALSE, block |-> <<>>]
    ELSE LET p1 == Append(pool, tx)
         IN IF Len(p1) > bs
            THEN LET m == mine_pending_transactions(c, p1, None, d, bs, clock)
                 IN [chain |-> m.chain, pending |-> m.pending, ok |-> TRUE,
                     block |-> m.block]
            ELSE [chain |-> c, pending |-> p1, ok |-> TRUE, block |-> <<>>]

\* add_transaction: the chain and pool it leaves, its boolean result and the
\* block its auto-mining produced (<<>> when it mined nothing)
add_transaction(c, pool, tx, d, bs, clock) ==
    IF ~validate_transaction(tx)
    THEN [chain |-> c, pending |-> pool, ok |-> FALSE, block |-> <<>>]
    ELSE LET p1 == Append(pool, tx)
         IN IF Len(p1) >= bs
            THEN LET m == mine_pending_transactions(c, p1, None, d, bs, clock)
                 IN [chain |-> m.chain, pending |-> m.pending, ok |-> TRUE,
                     block |-> m.block]
            ELSE [chain |-> c, pending |-> p1, ok |-> TRUE, block |-> <<>>]

is_chain_valid(c) ==
    \A i \in 2..Len(c) :
        /\ c[i].hash = calculate_hash(c[i])
        /\ c[i].previous_hash = c[i - 1].hash

\* ---------------------------------------------------------------- inputs
TxInputs ==
    {Transaction(n[1], s, n[2], n[3], FALSE, "main", "{}", now) :
        n \in NumericInputs, s \in SignalInputs}

\* ------------------------------------------------------------------ Init
\* the empty dict
NoLanes == [l \in {} |-> 0]

\* roads = [road1, road2, road3, road4]
Roads == {1, 2, 3, 4}

\* the scheduler before its loop: road1 active and green, the timer started
SchedStart(green_times) ==
    /\ active_road = 1
    /\ road_is_green = [r \in Roads |-> r = 1]
    /\ hasEmergencyVehicle = [r \in Roads |-> FALSE]
    /\ road_green_time = green_times
    /\ green_elapsed = 0
    /\ sched_pc = "expiry"

\* no mine request under way
RouteIdle ==
    /\ route_pc = "idle"
    /\ transactions_to_mine = <<>>
    /\ pending_rest = <<>>
    /\ new_block = <<>>

\* every thread taken step by step at rest
ConcInit ==
    /\ RouteIdle
    /\ start_pc = "idle"
    /\ worker_pc = [w \in Threads |-> "unborn"]
    /\ pow_pc = "idle"
    /\ pow_block = <<>>
    /\ pow_difficulty = 0

AuxInit ==
    /\ SchedStart([r \in Roads |-> 1])
    /\ ConcInit

CoreInit ==
    /\ now = 0
    /\ chain = <<create_genesis_block(0)>>
    /\ pending_transactions = <<>>
    /\ difficulty \in 0..DefaultDifficulty
    /\ block_size \in 1..MaxBlockSize
    /\ op = "init"
    /\ ret = None
    /\ accepted = <<>>
    /\ mined = 0
    /\ rewarded = FALSE
    /\ tampered = 0
    /\ replaced = 0
    /\ lanes = NoLanes
    /\ previous_signal_states = NoLanes
    /\ analysis_running = FALSE
    /\ cycles = 0
    /\ last_status = NoLanes

Init == CoreInit /\ AuxInit

\* --------------------------------------------------------------- actions
Tick ==
    /\ now < MaxClock
    /\ now' = now + 1
    /\ UNCHANGED <<chain, pending_transactions, difficulty, block_size,
                   op, ret, accepted, mined, rewarded, tampered, replaced, appVars, auxVars>>

AddTransaction(tx) ==
    LET r == add_transaction(chain, pending_transactions, tx, difficulty, block_size, now)
    IN /\ Len(accepted) < MaxTx
       /\ op' = "add_transaction"
       /\ ret' = IF r.ok THEN "True" ELSE "False"
       /\ chain' = r.chain
       /\ pending_transactions' = r.pending
       /\ accepted' = IF r.ok THEN Append(accepted, tx) ELSE accepted
       /\ mined' = mined + Len(r.block)
       /\ UNCHANGED <<difficulty, block_size, now, rewarded, tampered, replaced, appVars, auxVars>>

MinePending(node) ==
    LET r == mine_pending_transactions(chain, pending_transactions, node,
                                       difficulty, block_size, now)
    IN /\ chain' = r.chain
       /\ pending_transactions' = r.pending
       /\ op' = "mine_pending_transactions"
       /\ ret' = IF r.block = <<>> THEN None ELSE "Block"
       /\ mined' = mined + Len(r.block)
       /\ rewarded' = (rewarded \/ (r.block # <<>> /\ node # None))
       /\ UNCHANGED <<difficulty, block_size, now, accepted, tampered, replaced, appVars, auxVars>>

Next ==
    \/ Tick
    \/ \E tx \in TxInputs : AddTransaction(tx)
    \/ \E node \in RewardNodes : MinePending(node)

Spec == Init /\ [][Next]_vars

\* ------------------------------------------- a block altered after commit
\* Block attributes are plain public fields: one of them is overwritten and
\* the stored hash is left as it was
TamperBlock(b, f) ==
    CASE f = "index" -> [b EXCEPT !.index = @ + 1]
      [] f = "timestamp" -> [b EXCEPT !.timestamp = @ + 1]
      [] f = "nonce" -> [b EXCEPT !.nonce = @ + 1]
      [] f = "previous_hash" ->
            [b EXCEPT !.previous_hash = IF @ = ZeroHash THEN b.hash ELSE ZeroHash]
      [] f = "transactions" -> [b EXCEPT !.transactions[1].vehicle_count = @ + 1]

TamperAt(c, i, f) == [c EXCEPT ![i] = TamperBlock(c[i], f)]

Tamper(i, f) ==
    /\ tampered = 0
    /\ chain' = TamperAt(chain, i, f)
    /\ tampered' = i
    /\ op' = "tamper"
    /\ ret' = None
    /\ UNCHANGED <<pending_transactions, difficulty, block_size, now,
                   accepted, mined, rewarded, replaced, appVars, auxVars>>

\* the transactions the ledger is fed in the runs with an altered block or a
\* replaced chain
CoreTxInputs ==
    {Transaction(0, s, 0, 0, FALSE, "main", "{}", now) : s \in {"GREEN", "RED"}}

NextTamper ==
    \/ \E tx \in CoreTxInputs : AddTransaction(tx)
    \/ MinePending(None)
    \/ \E i \in 1..Len(chain), f \in BlockFields : Tamper(i, f)

SpecTamper == Init /\ [][NextTamper]_vars

\* ---------------------------------------------------------- replace_chain
\* replace_chain taking a candidate of equal length too
replace_chain_accept_equal(c, new_chain) ==
    IF Len(new_chain) < Len(c) THEN [chain |-> c, ok |-> FALSE]
    ELSE IF ~is_chain_valid(new_chain) THEN [chain |-> c, ok |-> FALSE]
    ELSE [chain |-> new_chain, ok |-> TRUE]

replace_chain(c, new_chain) ==
    IF Len(new_chain) <= Len(c) THEN [chain |-> c, ok |-> FALSE]
    ELSE IF ~is_chain_valid(new_chain) THEN [chain |-> c, ok |-> FALSE]
    ELSE [chain |-> new_chain, ok |-> TRUE]

\* a chain one block longer, as a ledger of difficulty d mines it
ExtendChain(c, d, clock) ==
    Append(c, NewBlock(c, <<Transaction(0, "YELLOW", 0, 0, FALSE, "peer", "{}", clock)>>,
                       d, clock))

\* candidate chains handed to replace_chain: the current chain or a copy of it
\* with one altered block, as it is, cut by one block or grown by one block
CandidateChains ==
    LET bases == {chain} \cup {TamperAt(chain, i, f) : i \in 1..Len(chain), f \in BlockFields}
    IN bases
       \cup {SubSeq(b, 1, Len(b) - 1) : b \in bases}
       \cup {ExtendChain(b, d, now) : b \in bases, d \in {0, difficulty}}

ReplaceChain(new_chain) ==
    LET r == replace_chain(chain, new_chain)
    IN /\ replaced < MaxReplace
       /\ chain' = r.chain
       /\ replaced' = replaced + 1
       /\ op' = "replace_chain"
       /\ ret' = IF r.ok THEN "True" ELSE "False"
       /\ UNCHANGED <<pending_transactions, difficulty, block_size, now,
                      accepted, mined, rewarded, tampered, appVars, auxVars>>

NextReplace ==
    \/ \E tx \in CoreTxInputs : AddTransaction(tx)
    \/ MinePending(None)
    \/ \E new_chain \in CandidateChains : ReplaceChain(new_chain)

SpecReplace == Init /\ [][NextReplace]_vars

\* ------------------------------------------------- get_latest_signal_state
\* the test that takes a transaction of the lane whatever its state
IsSignalOf_any_state(tx, lane_id) ==
    tx.lane_id = lane_id

\* the test of the scan: a transaction of the lane carrying a signal state
IsSignalOf(tx, lane_id) ==
    tx.lane_id = lane_id /\ tx.signal_state \in {"GREEN", "RED", "YELLOW"}

\* for tx in reversed(block.transactions), from position j down
RECURSIVE LatestInBlock(_, _, _)
LatestInBlock(txs, j, lane_id) ==
    IF j = 0 THEN <<>>
    ELSE IF IsSignalOf(txs[j], lane_id) THEN <<txs[j]>>
    ELSE LatestInBlock(txs, j - 1, lane_id)

\* for block in reversed(self.chain), from block i down
RECURSIVE LatestInChain(_, _, _)
LatestInChain(c, i, lane_id) ==
    IF i = 0 THEN <<>>
    ELSE LET r == LatestInBlock(c[i].transactions, Len(c[i].transactions), lane_id)
         IN IF r # <<>> THEN r ELSE LatestInChain(c, i - 1, lane_id)

\* get_latest_signal_state: <<>> for None, <<tx>> for the transaction found
get_latest_signal_state(c, lane_id) == LatestInChain(c, Len(c), lane_id)

\* the lanes asked about and the transactions fed in the runs with queries
QueryLanes == {0, 1}

QueryTxInputs ==
    {Transaction(l, s, 0, 0, FALSE, "main", "{}", now) :
        l \in QueryLanes, s \in {"GREEN", "RED", "INIT"}}

GetLatestSignalState(lane_id) ==
    LET r == get_latest_signal_state(chain, lane_id)
    IN /\ op' = "get_latest_signal_state"
       /\ ret' = IF r = <<>> THEN None ELSE r[1].signal_state
       /\ UNCHANGED <<chain, pending_transactions, difficulty, block_size, now,
                      accepted, mined, rewarded, tampered, replaced, appVars, auxVars>>

NextQuery ==
    \/ \E tx \in QueryTxInputs : AddTransaction(tx)
    \/ \E node \in RewardNodes : MinePending(node)
    \/ \E lane_id \in QueryLanes : GetLatestSignalState(lane_id)

SpecQuery == Init /\ [][NextQuery]_vars

\* ============================================== backend/app.py arbitration
\* lane ids accepted by upload_video
LaneIds == {1, 2, 3, 4}

\* lanes that start_analysis asks for
MinLanes == 4

\* blockchain.node_id of the application's ledger
AppNodeId == "traffic_signal_node_1"

\* vehicle counts the detector reports
Counts == 0..MaxCount

\* base_time and max_time of calculate_green_time
BaseTime == 30

MaxTime == 90

\* int(x) of Python for x = n / 2: truncation towards zero
IntOfHalves(n) == IF n >= 0 THEN n \div 2 ELSE -((-n) \div 2)

\* green time rounded to the nearest second, halves up
calculate_green_time_round(vehicle_count) ==
    Min(IntOfHalves(2 * BaseTime + 3 * vehicle_count + 1), MaxTime)

\* min(int(base_time + vehicle_count * 1.5), max_time); the float
\* base_time + vehicle_count * 1.5 is a whole number of halves
calculate_green_time(vehicle_count) ==
    Min(IntOfHalves(2 * BaseTime + 3 * vehicle_count), MaxTime)

\* dict with d[k] = v
Put(d, k, v) == [x \in (DOMAIN d) \cup {k} |-> IF x = k THEN v ELSE d[x]]

\* dict after del d[k]
Del(d, k) == [x \in (DOMAIN d) \ {k} |-> d[x]]

SetMin(S) == CHOOSE x \in S : \A y \in S : x <= y

SetMax(S) == CHOOSE x \in S : \A y \in S : y <= x

\* the entry upload_video stores for a lane; emergency_vehicle is the value
\* that .get('emergency_vehicle', False) reads from it
NewLane ==
    [vehicle_count |-> 0, green_time |-> 30, is_green |-> FALSE,
     emergency_vehicle |-> FALSE]

\* the application state the arbitration functions work on
AppState ==
    [lanes |-> lanes, prev |-> previous_signal_states, chain |-> chain,
     pending |-> pending_transactions, log |-> <<>>, blocks |-> 0, notices |-> 0]

\* the entry of previous_signal_states that a record call compares and stores
CurrentState(signal_state, vehicle_count, emergency_vehicle) ==
    [signal_state |-> signal_state, vehicle_count |-> vehicle_count,
     emergency_vehicle |-> emergency_vehicle]

\* "if len(pending_transactions) >= block_size: mine_pending_transactions()"
\* after the add_transaction whose result is r
MineAtThreshold(r, d, bs, clock) ==
    IF Len(r.pending) >= bs
    THEN mine_pending_transactions(r.chain, r.pending, None, d, bs, clock)
    ELSE [chain |-> r.chain, pending |-> r.pending, block |-> <<>>]

\* previous_signal_states written whatever add_transaction returned
Recorded_always_stored(A, lane_id, current_state, tx, r, m) ==
    [lanes |-> A.lanes,
     prev |-> Put(A.prev, lane_id, current_state),
     chain |-> m.chain, pending |-> m.pending,
     log |-> IF r.ok THEN Append(A.log, tx) ELSE A.log,
     blocks |-> A.blocks + Len(r.block) + Len(m.block),
     notices |-> A.notices + Len(m.block)]

\* the application state after add_transaction gave r and the threshold
\* mining gave m: previous_signal_states is written only when r.ok; log and
\* blocks collect the transactions accepted and count the blocks mined;
\* notices counts the 'blockchain_block_mined' events, emitted for the block
\* of the threshold mining only
Recorded(A, lane_id, current_state, tx, r, m) ==
    [lanes |-> A.lanes,
     prev |-> IF r.ok THEN Put(A.prev, lane_id, current_state) ELSE A.prev,
     chain |-> m.chain, pending |-> m.pending,
     log |-> IF r.ok THEN Append(A.log, tx) ELSE A.log,
     blocks |-> A.blocks + Len(r.block) + Len(m.block),
     notices |-> A.notices + Len(m.block)]

RecordAdd(A, lane_id, current_state, tx, r, d, bs, clock) ==
    Recorded(A, lane_id, current_state, tx, r, MineAtThreshold(r, d, bs, clock))

\* the part of record_blockchain_transaction after its duplicate check
RecordNew(A, lane_id, current_state, tx, d, bs, clock) ==
    RecordAdd(A, lane_id, current_state, tx,
              add_transaction(A.chain, A.pending, tx, d, bs, clock), d, bs, clock)

\* record_blockchain_transaction: the application state it leaves
record_blockchain_transaction(A, lane_id, signal_state, vehicle_count, green_time, emergency_vehicle, d, bs, clock) ==
    IF /\ lane_id \in DOMAIN A.prev
       /\ A.prev[lane_id] = CurrentState(signal_state, vehicle_count, emergency_vehicle)
    THEN A
    ELSE RecordNew(A, lane_id,
                   CurrentState(signal_state, vehicle_count, emergency_vehicle),
                   Transaction(lane_id, signal_state, vehicle_count, green_time,
                               emergency_vehicle, AppNodeId, "green_time", clock),
                   d, bs, clock)

\* lanes[lane_id]['is_green'] = b
SetGreen(A, lane_id, b) ==
    [A EXCEPT !.lanes = [@ EXCEPT ![lane_id] = [@ EXCEPT !.is_green = b]]]

\* the first loop of determine_traffic_lights over the lanes still to visit:
\* a RED record for a lane that is green, then is_green = False.  The loop
\* visits the dict in insertion order; the model visits in ascending order,
\* which leaves the same state whenever at most one lane is green on entry.
RECURSIVE AllRed(_, _, _, _, _)
AllRed(A, todo, d, bs, clock) ==
    IF todo = {} THEN A
    ELSE LET lane_id == SetMin(todo)
             lane_data == A.lanes[lane_id]
             A1 == IF lane_data.is_green
                   THEN record_blockchain_transaction(A, lane_id, "RED",
                            lane_data.vehicle_count, lane_data.green_time, FALSE,
                            d, bs, clock)
                   ELSE A
         IN AllRed(SetGreen(A1, lane_id, FALSE), todo \ {lane_id}, d, bs, clock)

\* the smallest count taken for the largest
MaxTraffic_smallest(ls) == SetMin({ls[l].vehicle_count : l \in DOMAIN ls})

\* max(data.get('vehicle_count', 0) for data in lanes.values())
MaxTraffic(ls) == SetMax({ls[l].vehicle_count : l \in DOMAIN ls})

\* the tie broken towards the highest lane id
highest_traffic_lane_last(ls, max_traffic) ==
    LET hits == {l \in DOMAIN ls : ls[l].vehicle_count = max_traffic}
    IN IF hits = {} THEN 0 ELSE SetMax(hits)

\* the first lane of sorted(lanes.keys()) whose count is max_traffic; 0 stands
\* for None (both are false in "if highest_traffic_lane:")
highest_traffic_lane(ls, max_traffic) ==
    LET hits == {l \in DOMAIN ls : ls[l].vehicle_count = max_traffic}
    IN IF hits = {} THEN 0 ELSE SetMin(hits)

\* the lane made green and its GREEN record
MakeGreen(A, lane_id, emergency_vehicle, d, bs, clock) ==
    LET A1 == SetGreen(A, lane_id, TRUE)
    IN record_blockchain_transaction(A1, lane_id, "GREEN",
           A1.lanes[lane_id].vehicle_count, A1.lanes[lane_id].green_time,
           emergency_vehicle, d, bs, clock)

\* the second part of determine_traffic_lights without its test for an empty
\* registry: lane 1 is entered and made green
SelectGreen_default_unchecked(A1, d, bs, clock) ==
    IF DOMAIN A1.lanes = {}
    THEN MakeGreen([A1 EXCEPT !.lanes = Put(@, 1, NewLane)], 1, FALSE, d, bs, clock)
    ELSE IF MaxTraffic(A1.lanes) = 0
         THEN IF 1 \in DOMAIN A1.lanes
              THEN MakeGreen(A1, 1, FALSE, d, bs, clock)
              ELSE A1
         ELSE LET h == highest_traffic_lane(A1.lanes, MaxTraffic(A1.lanes))
              IN IF h # 0
                 THEN MakeGreen(A1, h, A1.lanes[h].emergency_vehicle, d, bs, clock)
                 ELSE A1

\* determine_traffic_lights after its first loop left A1
SelectGreen(A1, d, bs, clock) ==
    IF DOMAIN A1.lanes = {} THEN A1
    ELSE IF MaxTraffic(A1.lanes) = 0
         THEN IF 1 \in DOMAIN A1.lanes
              THEN MakeGreen(A1, 1, FALSE, d, bs, clock)
              ELSE A1
         ELSE LET h == highest_traffic_lane(A1.lanes, MaxTraffic(A1.lanes))
              IN IF h # 0
                 THEN MakeGreen(A1, h, A1.lanes[h].emergency_vehicle, d, bs, clock)
                 ELSE A1

determine_traffic_lights(A, d, bs, clock) ==
    SelectGreen(AllRed(A, DOMAIN A.lanes, d, bs, clock), d, bs, clock)

\* the ledger of the application: difficulty 2, and the largest block size of
\* the model standing for its block_size
InitApp ==
    /\ Init
    /\ difficulty = DefaultDifficulty
    /\ block_size = MaxBlockSize

\* the state after a call of determine_traffic_lights that left A
DeterminedTo(A) ==
    /\ cycles < MaxCycles
    /\ cycles' = cycles + 1
    /\ op' = "determine_traffic_lights"
    /\ ret' = None
    /\ lanes' = A.lanes
    /\ last_status' = [l \in DOMAIN A.lanes |-> A.lanes[l].is_green]
    /\ previous_signal_states' = A.prev
    /\ chain' = A.chain
    /\ pending_transactions' = A.pending
    /\ accepted' = accepted \o A.log
    /\ mined' = mined + A.blocks

Determined ==
    DeterminedTo(determine_traffic_lights(AppState, difficulty, block_size, now))

UploadVideo(lane_id) ==
    /\ lanes' = Put(lanes, lane_id, NewLane)
    /\ op' = "upload_video"
    /\ ret' = "True"
    /\ UNCHANGED <<chain, pending_transactions, difficulty, block_size, now,
                   accepted, mined, rewarded, tampered, replaced,
                   previous_signal_states, analysis_running, cycles, last_status, auxVars>>

RemoveVideo(lane_id) ==
    /\ lanes' = IF lane_id \in DOMAIN lanes THEN Del(lanes, lane_id) ELSE lanes
    /\ op' = "remove_video"
    /\ ret' = IF lane_id \in DOMAIN lanes THEN "True" ELSE "False"
    /\ UNCHANGED <<chain, pending_transactions, difficulty, block_size, now,
                   accepted, mined, rewarded, tampered, replaced,
                   previous_signal_states, analysis_running, cycles, last_status, auxVars>>

\* start_analysis: refused below MinLanes lanes; a first start runs
\* determine_traffic_lights, a later one changes nothing
StartAnalysis ==
    IF Cardinality(DOMAIN lanes) < MinLanes
    THEN /\ op' = "start_analysis"
         /\ ret' = "False"
         /\ UNCHANGED <<chain, pending_transactions, difficulty, block_size, now,
                        accepted, mined, rewarded, tampered, replaced, appVars, auxVars>>
    ELSE IF ~analysis_running
    THEN /\ analysis_running' = TRUE
         /\ Determined
         /\ UNCHANGED <<difficulty, block_size, now, rewarded, tampered, replaced, auxVars>>
    ELSE /\ op' = "start_analysis"
         /\ ret' = "True"
         /\ UNCHANGED <<chain, pending_transactions, difficulty, block_size, now,
                        accepted, mined, rewarded, tampered, replaced, appVars, auxVars>>

\* analysis_worker, one lane of its loop: the count and green time it stores
WorkerUpdate(lane_id, vehicle_count) ==
    /\ analysis_running
    /\ lane_id \in DOMAIN lanes
    /\ lanes' = [lanes EXCEPT ![lane_id] =
                    [@ EXCEPT !.vehicle_count = vehicle_count,
                              !.green_time = calculate_green_time(vehicle_count)]]
    /\ op' = "analysis_worker"
    /\ ret' = None
    /\ UNCHANGED <<chain, pending_transactions, difficulty, block_size, now,
                   accepted, mined, rewarded, tampered, replaced,
                   previous_signal_states, analysis_running, cycles, last_status, auxVars>>

\* analysis_worker, the end of its loop: with state_lock: determine_traffic_lights()
WorkerCycle ==
    /\ analysis_running
    /\ Determined
    /\ UNCHANGED <<difficulty, block_size, now, rewarded, tampered, replaced,
                   analysis_running, auxVars>>

NextApp ==
    \/ \E lane_id \in LaneIds : UploadVideo(lane_id)
    \/ \E lane_id \in LaneIds : RemoveVideo(lane_id)
    \/ StartAnalysis
    \/ \E lane_id \in LaneIds, vehicle_count \in Counts : WorkerUpdate(lane_id, vehicle_count)
    \/ WorkerCycle

SpecApp == InitApp /\ [][NextApp]_vars

\* ------------------------------------------------ detector-side registry write
\* upsert(lane_id, vehicle_count, emergency_vehicle) of the lane registry: the
\* detector's write of a lane's count and emergency flag; a lane not yet
\* registered is entered red
Upsert(lane_id, vehicle_count, emergency_vehicle) ==
    /\ lanes' = Put(lanes, lane_id,
                    [(IF lane_id \in DOMAIN lanes THEN lanes[lane_id] ELSE NewLane)
                        EXCEPT !.vehicle_count = vehicle_count,
                               !.emergency_vehicle = emergency_vehicle])
    /\ op' = "upsert"
    /\ ret' = None
    /\ UNCHANGED <<chain, pending_transactions, difficulty, block_size, now,
                   accepted, mined, rewarded, tampered, replaced,
                   previous_signal_states, analysis_running, cycles, last_status, auxVars>>

NextEmergency ==
    \/ \E lane_id \in LaneIds : UploadVideo(lane_id)
    \/ StartAnalysis
    \/ \E lane_id \in LaneIds, vehicle_count \in Counts, emergency_vehicle \in BOOLEAN :
          Upsert(lane_id, vehicle_count, emergency_vehicle)
    \/ WorkerCycle

SpecEmergency == InitApp /\ [][NextEmergency]_vars

\* ------------------------------------------- calculate_green_time at work
\* vehicle counts fed to calculate_green_time
Vehicles == 0..MaxVehicles

NextGreenTime ==
    \/ \E lane_id \in LaneIds : UploadVideo(lane_id)
    \/ StartAnalysis
    \/ \E vehicle_count \in Vehicles : WorkerUpdate(1, vehicle_count)

SpecGreenTime == InitApp /\ [][NextGreenTime]_vars

\* ========================================================= main.py scheduler
\* the ring linked the other way round
NextRoadBack(r) == IF r = 1 THEN 4 ELSE r - 1

\* road1.next = road2, ..., road4.next = road1
NextRoad(r) == IF r = 4 THEN 1 ELSE r + 1

\* Road.turn_red / Road.turn_green on the is_green of the roads
turn_red(g, r) == [g EXCEPT ![r] = FALSE]

turn_green(g, r) == [g EXCEPT ![r] = TRUE]

\* the first road of the list whose get_hasEmergencyVehicle() is true
FirstEmergency == SetMin({r \in Roads : hasEmergencyVehicle[r]})

InitSched ==
    /\ CoreInit
    /\ difficulty = DefaultDifficulty
    /\ block_size = MaxBlockSize
    /\ \E green_times \in [Roads -> 1..MaxGreenTime] : SchedStart(green_times)
    /\ ConcInit

\* time.sleep: a second passes between two passes of the loop
SchedTick ==
    /\ sched_pc = "expiry"
    /\ green_elapsed <= MaxGreenTime
    /\ green_elapsed' = green_elapsed + 1
    /\ op' = "sleep"
    /\ ret' = None
    /\ UNCHANGED <<chain, pending_transactions, difficulty, block_size, now,
                   accepted, mined, rewarded, tampered, replaced, appVars,
                   active_road, road_is_green, hasEmergencyVehicle,
                   road_green_time, sched_pc, concVars>>

\* lines 38-49: the green-time check of a pass, curr_time read at its top
ExpiryCheck ==
    /\ sched_pc = "expiry"
    /\ sched_pc' = "emergency"
    /\ op' = "expiry_check"
    /\ IF green_elapsed > road_green_time[active_road]
       THEN /\ road_is_green' = turn_green(turn_red(road_is_green, active_road),
                                           NextRoad(active_road))
            /\ active_road' = NextRoad(active_road)
            /\ green_elapsed' = 0
            /\ ret' = "True"
       ELSE /\ UNCHANGED <<road_is_green, active_road, green_elapsed>>
            /\ ret' = "False"
    /\ UNCHANGED <<chain, pending_transactions, difficulty, block_size, now,
                   accepted, mined, rewarded, tampered, replaced, appVars,
                   hasEmergencyVehicle, road_green_time, concVars>>

\* lines 51-64: the emergency check of the same pass
EmergencyCheck ==
    /\ sched_pc = "emergency"
    /\ sched_pc' = "expiry"
    /\ op' = "emergency_check"
    /\ IF (\E r \in Roads : hasEmergencyVehicle[r]) /\ active_road # FirstEmergency
       THEN /\ road_is_green' = turn_green(turn_red(road_is_green, active_road),
                                           FirstEmergency)
            /\ active_road' = FirstEmergency
            /\ green_elapsed' = 0
            /\ ret' = "True"
       ELSE /\ UNCHANGED <<road_is_green, active_road, green_elapsed>>
            /\ ret' = "False"
    /\ UNCHANGED <<chain, pending_transactions, difficulty, block_size, now,
                   accepted, mined, rewarded, tampered, replaced, appVars,
                   hasEmergencyVehicle, road_green_time, concVars>>

\* database.update_hasEmergencyVehicle: the detector's write of a road's flag
UpdateHasEmergencyVehicle(r, has_emergency_vehicle) ==
    /\ hasEmergencyVehicle' = [hasEmergencyVehicle EXCEPT ![r] = has_emergency_vehicle]
    /\ op' = "update_hasEmergencyVehicle"
    /\ ret' = None
    /\ UNCHANGED <<chain, pending_transactions, difficulty, block_size, now,
                   accepted, mined, rewarded, tampered, replaced, appVars,
                   active_road, road_is_green, road_green_time, green_elapsed,
                   sched_pc, concVars>>

NextSched ==
    \/ SchedTick
    \/ ExpiryCheck
    \/ EmergencyCheck
    \/ \E r \in Roads, b \in BOOLEAN : UpdateHasEmergencyVehicle(r, b)

SpecSched == InitSched /\ [][NextSched]_vars

\* ------------------------------------------------- the worker loop for ever
\* A pass of analysis_worker's loop that never ends: determine_traffic_lights
\* run on the lane states, with the registry and previous_signal_states it
\* leaves.  The ledger grows with every pass, so the runs of this
\* specification keep the ledger at its state after start_analysis: every
\* record of a pass is accepted whatever the ledger holds, and the lanes a
\* pass leaves do not depend on it.  cycles counts the passes round and
\* round, so that a pass is a step even when it leaves every lane as it was.
NextPass(n) == (n + 1) % (MaxCycles + 1)

RegistryCycleTo(A) ==
    /\ op' = "determine_traffic_lights"
    /\ ret' = None
    /\ cycles' = NextPass(cycles)
    /\ lanes' = A.lanes
    /\ last_status' = [l \in DOMAIN A.lanes |-> A.lanes[l].is_green]
    /\ previous_signal_states' = A.prev
    /\ UNCHANGED <<chain, pending_transactions, difficulty, block_size, now,
                   accepted, mined, rewarded, tampered, replaced,
                   analysis_running, auxVars>>

RegistryCycle ==
    /\ analysis_running
    /\ \E A \in {determine_traffic_lights(AppState, difficulty, block_size, now)} :
           RegistryCycleTo(A)

NextStarve ==
    \/ \E lane_id \in LaneIds : UploadVideo(lane_id)
    \/ StartAnalysis
    \/ \E lane_id \in LaneIds, vehicle_count \in Counts : WorkerUpdate(lane_id, vehicle_count)
    \/ RegistryCycle

\* while analysis_running: ... time.sleep(1.5): the loop goes on to its next
\* pass for as long as the flag is set.  Of the steps of NextStarve taken
\* while the flag is set, the passes are those that move cycles.
LoopPass ==
    /\ analysis_running
    /\ cycles' = NextPass(cycles)

SpecStarve == InitApp /\ [][NextStarve]_vars /\ WF_cycles(LoopPass)

\* -------------------------------------- /api/blockchain/mine beside a writer
\* The request's thread takes no lock (app.py 751-775, blockchain.py 204-246),
\* so its reads and writes of the ledger are steps of their own, and a call
\* of add_transaction made by another thread falls between any two of them.
ledgerGhosts == <<accepted, rewarded, tampered, replaced>>

\* app.py 755: if not blockchain.pending_transactions: nothing to mine
MineRoute ==
    /\ route_pc = "idle"
    /\ op' = "mine_route"
    /\ ret' = IF pending_transactions = <<>> THEN "No pending transactions to mine"
              ELSE None
    /\ route_pc' = IF pending_transactions = <<>> THEN "idle" ELSE "enter"
    /\ UNCHANGED <<chain, pending_transactions, difficulty, block_size, now, mined,
                   ledgerGhosts, appVars, notRoute,
                   transactions_to_mine, pending_rest, new_block>>

\* blockchain.py 214-215: if not self.pending_transactions: return None
MineEnter ==
    /\ route_pc = "enter"
    /\ op' = "mine_route"
    /\ ret' = IF pending_transactions = <<>> THEN "Failed to mine block" ELSE None
    /\ route_pc' = IF pending_transactions = <<>> THEN "idle" ELSE "slice"
    /\ UNCHANGED <<chain, pending_transactions, difficulty, block_size, now, mined,
                   ledgerGhosts, appVars, notRoute,
                   transactions_to_mine, pending_rest, new_block>>

\* blockchain.py 230: transactions_to_mine = self.pending_transactions[:self.block_size]
MineSlice ==
    /\ route_pc = "slice"
    /\ op' = "mine_route"
    /\ ret' = None
    /\ route_pc' = "drain"
    /\ transactions_to_mine' = Take(pending_transactions, block_size)
    /\ UNCHANGED <<chain, pending_transactions, difficulty, block_size, now, mined,
                   ledgerGhosts, appVars, notRoute, pending_rest, new_block>>

\* blockchain.py 231, its right-hand side: self.pending_transactions[self.block_size:]
MineDrainRead ==
    /\ route_pc = "drain"
    /\ op' = "mine_route"
    /\ ret' = None
    /\ route_pc' = "store"
    /\ pending_rest' = Drop(pending_transactions, block_size)
    /\ UNCHANGED <<chain, pending_transactions, difficulty, block_size, now, mined,
                   ledgerGhosts, appVars, notRoute, transactions_to_mine, new_block>>

\* blockchain.py 231, its assignment: self.pending_transactions = ...
MineDrainStore ==
    /\ route_pc = "store"
    /\ op' = "mine_route"
    /\ ret' = None
    /\ route_pc' = "build"
    /\ pending_transactions' = pending_rest
    /\ pending_rest' = <<>>
    /\ UNCHANGED <<chain, difficulty, block_size, now, mined,
                   ledgerGhosts, appVars, notRoute, transactions_to_mine, new_block>>

\* blockchain.py 234-241: the block built on the chain as it is read now, mined
MineBuild ==
    /\ route_pc = "build"
    /\ op' = "mine_route"
    /\ ret' = None
    /\ route_pc' = "append"
    /\ new_block' = <<NewBlock(chain, transactions_to_mine, difficulty, now)>>
    /\ UNCHANGED <<chain, pending_transactions, difficulty, block_size, now, mined,
                   ledgerGhosts, appVars, notRoute, transactions_to_mine, pending_rest>>

\* blockchain.py 244-246: self.chain.append(new_block); return new_block
MineAppend ==
    /\ route_pc = "append"
    /\ op' = "mine_route"
    /\ ret' = "Block"
    /\ route_pc' = "idle"
    /\ chain' = Append(chain, new_block[1])
    /\ mined' = mined + 1
    /\ transactions_to_mine' = <<>>
    /\ new_block' = <<>>
    /\ UNCHANGED <<pending_transactions, difficulty, block_size, now,
                   ledgerGhosts, appVars, notRoute, pending_rest>>

\* the records the arbitration hands to add_transaction
RaceTxInputs ==
    {Transaction(l, s, 0, BaseTime, FALSE, AppNodeId, "green_time", now) :
        l \in {1, 2}, s \in {"GREEN", "RED"}}

NextRace ==
    \/ \E tx \in RaceTxInputs : AddTransaction(tx)
    \/ MineRoute
    \/ MineEnter
    \/ MineSlice
    \/ MineDrainRead
    \/ MineDrainStore
    \/ MineBuild
    \/ MineAppend

SpecRace == InitApp /\ [][NextRace]_vars

\* ------------------------------------ /api/start-analysis beside the writers
\* start_analysis takes state_lock for len(lanes) only (app.py 562-563); its
\* call of determine_traffic_lights (line 576) runs outside the lock, so the
\* writes other threads make under the lock fall between the loop that turns
\* every lane red (lines 286-296) and the choice of the green lane (299-340).
StartRequest ==
    /\ start_pc = "idle"
    /\ op' = "start_analysis"
    /\ ret' = IF Cardinality(DOMAIN lanes) < MinLanes THEN "False"
              ELSE IF ~analysis_running THEN None ELSE "True"
    /\ analysis_running' = (analysis_running \/ Cardinality(DOMAIN lanes) >= MinLanes)
    /\ start_pc' = IF Cardinality(DOMAIN lanes) >= MinLanes /\ ~analysis_running
                   THEN "all_red" ELSE "idle"
    /\ UNCHANGED <<chain, pending_transactions, difficulty, block_size, now,
                   accepted, mined, rewarded, tampered, replaced,
                   lanes, previous_signal_states, cycles, last_status,
                   schedVars, routeVars, workerVars, powVars>>

\* the state a part of the call leaves, and the place the thread goes to
StartStepTo(A, pc, calls) ==
    /\ op' = "start_analysis"
    /\ ret' = IF pc = "idle" THEN "True" ELSE None
    /\ start_pc' = pc
    /\ cycles' = cycles + calls
    /\ lanes' = A.lanes
    /\ last_status' = IF pc = "idle"
                      THEN [l \in DOMAIN A.lanes |-> A.lanes[l].is_green]
                      ELSE last_status
    /\ previous_signal_states' = A.prev
    /\ chain' = A.chain
    /\ pending_transactions' = A.pending
    /\ accepted' = accepted \o A.log
    /\ mined' = mined + A.blocks
    /\ UNCHANGED <<difficulty, block_size, now, rewarded, tampered, replaced,
                   analysis_running, schedVars, routeVars, workerVars, powVars>>

\* lines 286-296: for lane_id in lanes: ... lanes[lane_id]['is_green'] = False
StartAllRed ==
    /\ start_pc = "all_red"
    /\ StartStepTo(AllRed(AppState, DOMAIN lanes, difficulty, block_size, now),
                   "select", 0)

\* lines 299-340: the green lane chosen from the lanes as they are read now
StartSelect ==
    /\ start_pc = "select"
    /\ StartStepTo(SelectGreen(AppState, difficulty, block_size, now), "idle", 1)

NextStartRace ==
    \/ \E lane_id \in LaneIds : UploadVideo(lane_id)
    \/ \E lane_id \in LaneIds : RemoveVideo(lane_id)
    \/ StartRequest
    \/ StartAllRed
    \/ StartSelect
    \/ \E lane_id \in LaneIds, vehicle_count \in Counts : WorkerUpdate(lane_id, vehicle_count)

SpecStartRace == InitApp /\ [][NextStartRace]_vars

\* ------------------------------------------- the worker threads of the app
\* start_analysis starts a new analysis_worker thread whenever it finds
\* analysis_running false; stop_analysis and reset_system only clear the flag,
\* which a worker reads at the test of its while loop and nowhere else.
Unborn == {w \in Threads : worker_pc[w] = "unborn"}

\* start_analysis, with the thread it starts
StartThread ==
    /\ Cardinality(DOMAIN lanes) >= MinLanes
    /\ ~analysis_running
    /\ Unborn # {}
    /\ analysis_running' = TRUE
    /\ worker_pc' = [worker_pc EXCEPT ![SetMin(Unborn)] = "while"]
    /\ Determined
    /\ UNCHANGED <<difficulty, block_size, now, rewarded, tampered, replaced,
                   schedVars, routeVars, startVars, powVars>>

\* start_analysis refused or finding the analysis running
StartNoThread ==
    /\ Cardinality(DOMAIN lanes) < MinLanes \/ analysis_running
    /\ op' = "start_analysis"
    /\ ret' = IF Cardinality(DOMAIN lanes) < MinLanes THEN "False" ELSE "True"
    /\ UNCHANGED <<chain, pending_transactions, difficulty, block_size, now,
                   accepted, mined, rewarded, tampered, replaced, appVars, auxVars>>

\* stop_analysis: analysis_running = False
StopAnalysis ==
    /\ analysis_running' = FALSE
    /\ op' = "stop_analysis"
    /\ ret' = "True"
    /\ UNCHANGED <<chain, pending_transactions, difficulty, block_size, now,
                   accepted, mined, rewarded, tampered, replaced,
                   lanes, previous_signal_states, cycles, last_status, auxVars>>

\* reset_system: analysis_running = False; lanes.clear()
ResetSystem ==
    /\ analysis_running' = FALSE
    /\ lanes' = NoLanes
    /\ op' = "reset_system"
    /\ ret' = "True"
    /\ UNCHANGED <<chain, pending_transactions, difficulty, block_size, now,
                   accepted, mined, rewarded, tampered, replaced,
                   previous_signal_states, cycles, last_status, auxVars>>

\* line 346, while analysis_running: into the loop, or out of the function
WorkerWhile(w) ==
    /\ worker_pc[w] = "while"
    /\ worker_pc' = [worker_pc EXCEPT ![w] = IF analysis_running THEN "loop" ELSE "returned"]
    /\ op' = "analysis_worker"
    /\ ret' = None
    /\ UNCHANGED <<chain, pending_transactions, difficulty, block_size, now,
                   accepted, mined, rewarded, tampered, replaced, appVars,
                   schedVars, routeVars, startVars, powVars>>

\* lines 375-382 in the loop of thread w: the count and green time of a lane
WorkerFrame(w, lane_id, vehicle_count) ==
    /\ worker_pc[w] = "loop"
    /\ lane_id \in DOMAIN lanes
    /\ lanes' = [lanes EXCEPT ![lane_id] =
                    [@ EXCEPT !.vehicle_count = vehicle_count,
                              !.green_time = calculate_green_time(vehicle_count)]]
    /\ op' = "analysis_worker"
    /\ ret' = None
    /\ UNCHANGED <<chain, pending_transactions, difficulty, block_size, now,
                   accepted, mined, rewarded, tampered, replaced,
                   previous_signal_states, analysis_running, cycles, last_status, auxVars>>

\* lines 391-417 in the loop of thread w: determine_traffic_lights under
\* state_lock, the updates sent, time.sleep(1.5), back to the test
WorkerPass(w) ==
    /\ worker_pc[w] = "loop"
    /\ worker_pc' = [worker_pc EXCEPT ![w] = "while"]
    /\ Determined
    /\ UNCHANGED <<difficulty, block_size, now, rewarded, tampered, replaced,
                   analysis_running, schedVars, routeVars, startVars, powVars>>

NextThreads ==
    \/ \E lane_id \in LaneIds : UploadVideo(lane_id)
    \/ StartThread
    \/ StartNoThread
    \/ StopAnalysis
    \/ ResetSystem
    \/ \E w \in Threads : WorkerWhile(w)
    \/ \E w \in Threads, lane_id \in LaneIds, vehicle_count \in Counts :
            WorkerFrame(w, lane_id, vehicle_count)
    \/ \E w \in Threads : WorkerPass(w)

SpecThreads == InitApp /\ [][NextThreads]_vars

\* ------------------------------------------ the nonce search step by step
\* Block.mine_block (blockchain.py 96-107) with its while loop taken one
\* test at a time, on the block mine_pending_transactions would build from
\* the transactions handed in
PowTxInputs ==
    {<<>>} \cup {<<tx>> : tx \in CoreTxInputs}
           \cup {<<t1, t2>> : t1 \in CoreTxInputs, t2 \in CoreTxInputs}

\* new_block = Block(...); new_block.mine_block(difficulty): target = "0" * difficulty
MineBlockCall(txs, d) ==
    /\ pow_pc \in {"idle", "returned"}
    /\ pow_pc' = "while"
    /\ pow_block' = <<Block(Len(chain), txs, get_latest_block(chain).hash, now)>>
    /\ pow_difficulty' = d
    /\ op' = "mine_block"
    /\ ret' = None
    /\ UNCHANGED <<chain, pending_transactions, difficulty, block_size, now,
                   accepted, mined, rewarded, tampered, replaced, appVars,
                   schedVars, routeVars, startVars, workerVars>>

\* the block with the next nonce and its hash
NextNonce(b) ==
    [[b EXCEPT !.nonce = @ + 1] EXCEPT !.hash = calculate_hash([b EXCEPT !.nonce = @ + 1])]

\* while self.hash[:difficulty] != target: self.nonce += 1; self.hash = ...
MineBlockWhile ==
    /\ pow_pc = "while"
    /\ op' = "mine_block"
    /\ IF Take(pow_block[1].hash.head, pow_difficulty) = Zeros(pow_difficulty)
       THEN /\ pow_pc' = "returned"
            /\ ret' = "Block"
            /\ UNCHANGED pow_block
       ELSE /\ pow_block[1].nonce < MaxNonce
            /\ pow_pc' = "while"
            /\ ret' = None
            /\ pow_block' = <<NextNonce(pow_block[1])>>
    /\ UNCHANGED <<chain, pending_transactions, difficulty, block_size, now,
                   accepted, mined, rewarded, tampered, replaced, appVars,
                   schedVars, routeVars, startVars, workerVars, pow_difficulty>>

NextPow ==
    \/ Tick
    \/ \E txs \in PowTxInputs, d \in 0..MaxDifficulty : MineBlockCall(txs, d)
    \/ MineBlockWhile

SpecPow == InitApp /\ [][NextPow]_vars

\* ------------------------------------------- add_transaction and exceptions
\* A call of add_transaction with a transaction whose fields need not be
\* well formed.  `malformed` names the field that holds a value Python
\* cannot compare with 0 (None, a string), or is "none"; the metadata
\* "unserializable" stands for a dict json.dumps cannot write (a set, a
\* datetime).  The outcome is "True" or "False" for a returned value and
\* "TypeError" for an exception that leaves the call.
MalformedFields == {"none", "lane_id", "vehicle_count", "green_time"}

\* validate_transaction, line by line: a comparison of a non-number with 0
\* raises, a test that fails before it returns False
validate_transaction_outcome(tx, malformed) ==
    IF malformed = "lane_id" THEN "TypeError"
    ELSE IF tx.lane_id < 0 THEN "False"
    ELSE IF tx.signal_state \notin {"GREEN", "RED", "YELLOW", "INIT"} THEN "False"
    ELSE IF malformed = "vehicle_count" THEN "TypeError"
    ELSE IF tx.vehicle_count < 0 THEN "False"
    ELSE IF malformed = "green_time" THEN "TypeError"
    ELSE IF tx.green_time < 0 THEN "False"
    ELSE "True"

\* json.dumps of calculate_hash writes every transaction of the block
Serializable(txs) == \A i \in 1..Len(txs) : txs[i].metadata # "unserializable"

\* add_transaction: the chain and pool it leaves, whether the transaction
\* reached the pool, the blocks mined and the outcome.  The pool is drained
\* (line 231) before Block(...) hashes the block (line 234), so an exception
\* of json.dumps leaves the pool without the transactions taken.
add_transaction_outcome(c, pool, tx, malformed, d, bs, clock) ==
    IF validate_transaction_outcome(tx, malformed) # "True"
    THEN [chain |-> c, pending |-> pool, added |-> FALSE, blocks |-> 0,
          outcome |-> validate_transaction_outcome(tx, malformed)]
    ELSE IF Len(pool) + 1 < bs
    THEN [chain |-> c, pending |-> Append(pool, tx), added |-> TRUE, blocks |-> 0,
          outcome |-> "True"]
    ELSE IF ~Serializable(Take(Append(pool, tx), bs))
    THEN [chain |-> c, pending |-> Drop(Append(pool, tx), bs), added |-> TRUE,
          blocks |-> 0, outcome |-> "TypeError"]
    ELSE [chain |-> Append(c, NewBlock(c, Take(Append(pool, tx), bs), d, clock)),
          pending |-> Drop(Append(pool, tx), bs), added |-> TRUE, blocks |-> 1,
          outcome |-> "True"]

\* the transactions of the calls: well formed ones, one with an invalid
\* state, and ones with metadata that cannot be serialized
CallTxInputs ==
    {Transaction(0, s, 0, 0, FALSE, "main", m, now) :
        s \in {"GREEN", "RED", "PURPLE"}, m \in {"{}", "unserializable"}}

AddTransactionCallTo(r, tx) ==
    /\ op' = "add_transaction"
    /\ ret' = r.outcome
    /\ chain' = r.chain
    /\ pending_transactions' = r.pending
    /\ accepted' = IF r.added THEN Append(accepted, tx) ELSE accepted
    /\ mined' = mined + r.blocks
    /\ UNCHANGED <<difficulty, block_size, now, rewarded, tampered, replaced,
                   appVars, auxVars>>

AddTransactionCall(tx, malformed) ==
    /\ Len(accepted) < MaxTx
    /\ AddTransactionCallTo(add_transaction_outcome(chain, pending_transactions, tx,
                                malformed, difficulty, block_size, now), tx)

NextCall ==
    \/ Tick
    \/ \E tx \in CallTxInputs, malformed \in MalformedFields :
           AddTransactionCall(tx, malformed)

SpecCall == Init /\ [][NextCall]_vars

\* --------------------------------------------------- the end-to-end scenario
\* lanes {1: 5, 2: 5, 3: 12, 4: 0} on a ledger with block_size 2 and
\* difficulty 1: the four videos uploaded, the analysis started, the worker
\* storing the counts of the scenario and running its arbitration
ScenarioCounts == <<5, 5, 12, 0>>

ScenarioBlockSize == 2

ScenarioDifficulty == 1

InitScenario ==
    /\ Init
    /\ difficulty = ScenarioDifficulty
    /\ block_size = ScenarioBlockSize

\* the upload of a lane's video before the analysis starts
ScenarioUpload(lane_id) ==
    /\ ~analysis_running
    /\ lane_id \notin DOMAIN lanes
    /\ UploadVideo(lane_id)

NextScenario ==
    \/ Tick
    \/ \E lane_id \in LaneIds : ScenarioUpload(lane_id)
    \/ StartAnalysis
    \/ \E lane_id \in LaneIds : WorkerUpdate(lane_id, ScenarioCounts[lane_id])
    \/ WorkerCycle

SpecScenario == InitScenario /\ [][NextScenario]_vars

\* ------------------------------ the two callers of determine_traffic_lights
\* The worker's call runs under state_lock (app.py 391-392) and is a step of
\* its own; the call of start_analysis (line 576) holds no lock, so the
\* worker's updates and the worker's call fall between its two parts.
NextGreenRace ==
    \/ \E lane_id \in LaneIds : ScenarioUpload(lane_id)
    \/ StartRequest
    \/ StartAllRed
    \/ StartSelect
    \/ \E lane_id \in LaneIds, vehicle_count \in Counts : WorkerUpdate(lane_id, vehicle_count)
    \/ WorkerCycle

SpecGreenRace == InitApp /\ [][NextGreenRace]_vars

\* ------------------------------------- record_blockchain_transaction alone
\* calls of record_blockchain_transaction with any arguments, those that
\* add_transaction rejects included
RecordLanes == {1, 2}

RecordStates == {"GREEN", "RED", "PURPLE"}

RecordCallTo(A) ==
    /\ op' = "record_blockchain_transaction"
    /\ ret' = None
    /\ previous_signal_states' = A.prev
    /\ chain' = A.chain
    /\ pending_transactions' = A.pending
    /\ accepted' = accepted \o A.log
    /\ mined' = mined + A.blocks
    /\ UNCHANGED <<difficulty, block_size, now, rewarded, tampered, replaced,
                   lanes, analysis_running, cycles, last_status, auxVars>>

RecordCall(lane_id, signal_state, vehicle_count, emergency_vehicle) ==
    /\ Len(accepted) < MaxTx
    /\ RecordCallTo(record_blockchain_transaction(AppState, lane_id, signal_state,
                        vehicle_count, calculate_green_time(vehicle_count),
                        emergency_vehicle, difficulty, block_size, now))

NextRecord ==
    \/ Tick
    \/ \E lane_id \in RecordLanes, signal_state \in RecordStates,
          vehicle_count \in Counts, emergency_vehicle \in BOOLEAN :
           RecordCall(lane_id, signal_state, vehicle_count, emergency_vehicle)

SpecRecord == InitApp /\ [][NextRecord]_vars

\* ------------------------------- the worker's update, statement by statement
\* Inside state_lock the worker writes lanes[lane_id]['vehicle_count'] (app.py
\* 377) and then lanes[lane_id]['green_time'] (line 378).  The lock keeps
\* out the threads that take it; the call of determine_traffic_lights made
\* by start_analysis (line 576) does not.  A lane whose green_time is not
\* that of its count is the lane the worker is in the middle of.
MidUpdate == {l \in DOMAIN lanes :
                 lanes[l].green_time # calculate_green_time(lanes[l].vehicle_count)}

\* line 377: lanes[lane_id]['vehicle_count'] = vehicle_count
WorkerWriteCount(lane_id, vehicle_count) ==
    /\ analysis_running
    /\ MidUpdate = {}
    /\ lane_id \in DOMAIN lanes
    /\ lanes' = [lanes EXCEPT ![lane_id] = [@ EXCEPT !.vehicle_count = vehicle_count]]
    /\ op' = "analysis_worker"
    /\ ret' = None
    /\ UNCHANGED <<chain, pending_transactions, difficulty, block_size, now,
                   accepted, mined, rewarded, tampered, replaced,
                   previous_signal_states, analysis_running, cycles, last_status, auxVars>>

\* line 378: lanes[lane_id]['green_time'] = green_time
WorkerWriteGreenTime(lane_id) ==
    /\ lane_id \in MidUpdate
    /\ lanes' = [lanes EXCEPT ![lane_id] =
                    [@ EXCEPT !.green_time =
                         calculate_green_time(lanes[lane_id].vehicle_count)]]
    /\ op' = "analysis_worker"
    /\ ret' = None
    /\ UNCHANGED <<chain, pending_transactions, difficulty, block_size, now,
                   accepted, mined, rewarded, tampered, replaced,
                   previous_signal_states, analysis_running, cycles, last_status, auxVars>>

NextTornUpdate ==
    \/ Tick
    \/ \E lane_id \in LaneIds : ScenarioUpload(lane_id)
    \/ StartRequest
    \/ StartAllRed
    \/ StartSelect
    \/ \E lane_id \in LaneIds, vehicle_count \in Counts : WorkerWriteCount(lane_id, vehicle_count)
    \/ \E lane_id \in LaneIds : WorkerWriteGreenTime(lane_id)

SpecTornUpdate == InitApp /\ [][NextTornUpdate]_vars

\* ------------------------------------------ the worker loop and the ledger
\* A pass of analysis_worker's loop with all it does to the ledger.  The
\* passes are counted round and round (NextPass), and a pass is taken as long
\* as the transactions it records fit the ledger's bound: a pass that
\* records nothing can be taken for ever.
LedgerCycleTo(A) ==
    /\ Len(accepted) + Len(A.log) <= MaxTx
    /\ op' = "determine_traffic_lights"
    /\ ret' = None
    /\ cycles' = NextPass(cycles)
    /\ lanes' = A.lanes
    /\ last_status' = [l \in DOMAIN A.lanes |-> A.lanes[l].is_green]
    /\ previous_signal_states' = A.prev
    /\ chain' = A.chain
    /\ pending_transactions' = A.pending
    /\ accepted' = accepted \o A.log
    /\ mined' = mined + A.blocks
    /\ UNCHANGED <<difficulty, block_size, now, rewarded, tampered, replaced,
                   analysis_running, auxVars>>

LedgerCycle ==
    /\ analysis_running
    /\ \E A \in {determine_traffic_lights(AppState, difficulty, block_size, now)} :
           LedgerCycleTo(A)

\* the videos are uploaded before the start; of the lanes, those of
\* RecordLanes are seen with traffic and can be removed
NextLedgerLoop ==
    \/ \E lane_id \in LaneIds : ScenarioUpload(lane_id)
    \/ \E lane_id \in RecordLanes : RemoveVideo(lane_id)
    \/ StartAnalysis
    \/ \E lane_id \in RecordLanes, vehicle_count \in Counts : WorkerUpdate(lane_id, vehicle_count)
    \/ LedgerCycle

\* the loop keeps cycling: while analysis_running no pass is the last
SpecLedgerLoop == InitApp /\ [][NextLedgerLoop]_vars /\ WF_cycles(LoopPass)

\* ================================================================= claims
RECURSIVE FlattenTx(_)
FlattenTx(c) == IF Len(c) = 0 THEN <<>>
                ELSE FlattenTx(SubSeq(c, 1, Len(c) - 1)) \o c[Len(c)].transactions

\* the validation rule as the specification words it
DocumentedValid(tx) ==
    /\ tx.lane_id >= 0
    /\ tx.signal_state \in {"INIT", "GREEN", "RED", "YELLOW", "REWARD"}
    /\ tx.vehicle_count >= 0
    /\ tx.green_time >= 0

\* C1: after every add_transaction / mine_pending_transactions on a fresh
\* ledger is_chain_valid() is true: every block from position 1 on has a hash
\* equal to its recomputed hash and a previous_hash equal to its predecessor's
\* hash.
C1_ChainValid == is_chain_valid(chain)

C1_Witness == Len(chain) >= 3 /\ mined >= 2

\* C2: add_transaction and mine_pending_transactions only append: every block
\* of the chain before the step is at the same position after it, with all of
\* its fields unchanged.
C2_AppendOnly ==
    [][/\ Len(chain') >= Len(chain)
       /\ \A i \in 1..Len(chain) : chain'[i] = chain[i]]_vars

C2_Witness == Len(chain) >= 3 /\ op = "mine_pending_transactions" /\ ret = "Block"

\* C3: after N mining operations that produced a block (and no replace_chain)
\* the chain holds the genesis block plus N blocks.
C3_GenesisPlusN == Len(chain) = 1 + mined

C3_Witness == mined = 2 /\ Len(pending_transactions) = 0 /\ op = "add_transaction"

\* C4: without a reward node, the transactions of the mined blocks in chain
\* order followed by the pending queue are the accepted transactions in their
\* order of arrival, each exactly once.
C4_FifoConservation ==
    ~rewarded => FlattenTx(SubSeq(chain, 2, Len(chain))) \o pending_transactions = accepted

C4_Witness ==
    /\ ~rewarded
    /\ Len(accepted) = 3
    /\ accepted[1] # accepted[2]
    /\ Len(chain) = 2
    /\ Len(chain[2].transactions) = 2
    /\ Len(pending_transactions) = 1

\* C5: between ledger operations the pending queue is shorter than block_size:
\* add_transaction mines as soon as the queue reaches block_size.
C5_PendingBelowBlockSize == Len(pending_transactions) < block_size

C5_Witness ==
    /\ block_size = 2
    /\ op = "add_transaction"
    /\ ret = "True"
    /\ mined = 1
    /\ Len(pending_transactions) = 0
    /\ Len(chain[2].transactions) = 2

\* C6: add_transaction on a transaction with a negative lane_id, vehicle_count
\* or green_time, or a signal_state outside the enum, returns false and leaves
\* chain and pending_transactions unchanged.
C6_InvalidRejected ==
    [][(\E tx \in TxInputs : ~DocumentedValid(tx) /\ AddTransaction(tx))
          => (/\ ret' = "False"
              /\ chain' = chain
              /\ pending_transactions' = pending_transactions)]_vars

C6_Witness ==
    /\ op = "add_transaction"
    /\ ret = "False"
    /\ Len(pending_transactions) = 1
    /\ Len(chain) = 2

\* C7: add_transaction accepts every transaction with lane_id >= 0,
\* vehicle_count >= 0, green_time >= 0 and a signal_state among INIT, GREEN,
\* RED, YELLOW and REWARD.
C7_AcceptsDocumentedEnum ==
    \A tx \in TxInputs :
        DocumentedValid(tx)
           => add_transaction(chain, pending_transactions, tx, difficulty,
                              block_size, now).ok

\* C8: every block appended by mine_pending_transactions has a hash whose
\* first `difficulty` characters are all '0'.
C8_ProofOfWork ==
    \A i \in 2..Len(chain) : Take(chain[i].hash.head, difficulty) = Zeros(difficulty)

C8_Witness ==
    /\ difficulty = DefaultDifficulty
    /\ Len(chain) >= 3
    /\ \E i \in 2..Len(chain) : chain[i].nonce > 0

\* C9: in every reachable ledger state every block of the chain, the genesis
\* block included, has a stored hash equal to the hash recomputed from its
\* stored index, timestamp, transactions, previous_hash and nonce.
C9_HashMatchesFields ==
    \A i \in 1..Len(chain) : chain[i].hash = calculate_hash(chain[i])

\* C10: once a hashed field of any block of the chain, genesis and tip
\* included, has been altered with the stored hash left as it was,
\* is_chain_valid() is false.
C10_TamperDetected == (tampered # 0) => ~is_chain_valid(chain)

\* C11: replace_chain(candidate) returns true exactly when the candidate is
\* longer than the chain and passes the is_chain_valid rule; on true the chain
\* is the candidate, on false the chain is left unchanged.
C11_ReplaceChainRule ==
    [][op' = "replace_chain" /\ replaced' # replaced
          => \A cand \in CandidateChains :
                ReplaceChain(cand)
                   => LET longer_valid == Len(cand) > Len(chain) /\ is_chain_valid(cand)
                      IN /\ (ret' = "True") <=> longer_valid
                         /\ longer_valid => chain' = cand
                         /\ ~longer_valid => chain' = chain]_vars

C11_Witness ==
    /\ op = "replace_chain"
    /\ ret = "True"
    /\ Len(chain) >= 3
    /\ chain[Len(chain)].transactions[1].node_id = "peer"

\* C12: a longer candidate with a block, at any index including 0, whose
\* stored hash differs from the hash recomputed over its fields is rejected by
\* replace_chain.
C12_TamperedCandidateRejected ==
    \A cand \in CandidateChains :
        (/\ Len(cand) > Len(chain)
         /\ \E i \in 1..Len(cand) : cand[i].hash # calculate_hash(cand[i]))
           => ~replace_chain(chain, cand).ok

\* C13: mine_pending_transactions on an empty pending queue, with or without a
\* reward node, returns none and leaves chain and pending_transactions as they
\* were.
C13_EmptyMineNoOp ==
    [][\A node \in RewardNodes :
          (Len(pending_transactions) = 0 /\ MinePending(node))
             => (/\ ret' = None
                 /\ chain' = chain
                 /\ pending_transactions' = pending_transactions)]_vars

C13_Witness ==
    /\ op = "mine_pending_transactions"
    /\ ret = None
    /\ Len(chain) >= 2
    /\ Len(pending_transactions) = 0

\* the committed transactions of a lane that carry GREEN, RED or YELLOW, by
\* their position in the chain read from the genesis block on
SignalPositions(lane_id) ==
    {k \in 1..Len(FlattenTx(chain)) :
        /\ FlattenTx(chain)[k].lane_id = lane_id
        /\ FlattenTx(chain)[k].signal_state \in {"GREEN", "RED", "YELLOW"}}

\* C14: get_latest_signal_state(lane_id) returns the most recently committed
\* transaction of that lane whose state is GREEN, RED or YELLOW (INIT and
\* REWARD entries skipped), none when there is no such transaction; pending
\* transactions are never returned.
C14_LatestCommittedSignal ==
    \A lane_id \in QueryLanes :
        LET r == get_latest_signal_state(chain, lane_id)
            pos == SignalPositions(lane_id)
        IN IF pos = {} THEN r = <<>>
           ELSE r = <<FlattenTx(chain)[CHOOSE k \in pos : \A j \in pos : j <= k]>>

C14_Witness ==
    /\ op = "get_latest_signal_state"
    /\ ret = "GREEN"
    /\ Len(chain) = 3
    /\ chain[2].transactions[1].lane_id = 0
    /\ chain[2].transactions[1].signal_state = "GREEN"
    /\ chain[3].transactions[1].signal_state = "INIT"
    /\ chain[3].transactions[Len(chain[3].transactions)].signal_state = "REWARD"
    /\ get_latest_signal_state(chain, 0) = <<chain[2].transactions[1]>>
    /\ Len(pending_transactions) = 1
    /\ pending_transactions[1].lane_id = 0
    /\ pending_transactions[1].signal_state = "RED"

\* the lanes that are green
Greens == {l \in DOMAIN lanes : lanes[l].is_green}

\* the lanes of the registry whose count no other lane exceeds
Busiest ==
    {l \in DOMAIN lanes :
        \A k \in DOMAIN lanes : lanes[k].vehicle_count <= lanes[l].vehicle_count}

\* the lanes that a second call of determine_traffic_lights would leave green
GreensOfRerun ==
    LET A == determine_traffic_lights(AppState, difficulty, block_size, now)
    IN {l \in DOMAIN A.lanes : A.lanes[l].is_green}

\* C15: after every call of determine_traffic_lights on a non-empty registry
\* exactly one lane has is_green = true.
C15_ExactlyOneGreen ==
    (op = "determine_traffic_lights" /\ DOMAIN lanes # {})
        => Cardinality(Greens) = 1

\* C16: when the largest vehicle_count is positive, the lane made green is the
\* lowest lane id among the lanes with the largest count and every other lane
\* is red; a second call on the same registry selects the same lane.
C16_LowestBusiestLane ==
    (/\ op = "determine_traffic_lights"
     /\ DOMAIN lanes # {}
     /\ \E l \in DOMAIN lanes : lanes[l].vehicle_count > 0)
        => (/\ Greens = {CHOOSE l \in Busiest : \A k \in Busiest : l <= k}
            /\ GreensOfRerun = Greens)

C16_Witness ==
    /\ op = "determine_traffic_lights"
    /\ DOMAIN lanes = {1, 2, 3}
    /\ lanes[1].vehicle_count = 0
    /\ lanes[2].vehicle_count = 1
    /\ lanes[3].vehicle_count = 1
    /\ lanes[2].is_green
    /\ ~lanes[1].is_green
    /\ ~lanes[3].is_green

\* C17: when the registry is non-empty and every lane has vehicle_count 0,
\* the call makes the lowest-numbered registered lane green.
C17_ZeroTrafficLowestLane ==
    (/\ op = "determine_traffic_lights"
     /\ DOMAIN lanes # {}
     /\ \A l \in DOMAIN lanes : lanes[l].vehicle_count = 0)
        => Greens = {CHOOSE l \in DOMAIN lanes : \A k \in DOMAIN lanes : l <= k}

\* C18: a call of determine_traffic_lights on the lane states that the
\* previous call left (same counts, same flags, same green lane) adds no
\* transaction to the ledger.
C18_RerunAddsNothing ==
    op = "determine_traffic_lights"
        => determine_traffic_lights(AppState, difficulty, block_size, now).log = <<>>

\* C19: for every lane whose green/red status at the end of a call of
\* determine_traffic_lights differs from its status at the end of the call
\* before, exactly one transaction carrying the new status is added by the
\* call, whatever registrations, re-registrations and count updates happened
\* in between.
C19_OneRecordPerChange ==
    [][(op' = "determine_traffic_lights" /\ cycles' = cycles + 1 /\ cycles >= 1)
          => \A l \in (DOMAIN lanes') \cap (DOMAIN last_status) :
                lanes'[l].is_green # last_status[l]
                   => Cardinality({k \in (Len(accepted) + 1)..Len(accepted') :
                         /\ accepted'[k].lane_id = l
                         /\ accepted'[k].signal_state =
                               IF lanes'[l].is_green THEN "GREEN" ELSE "RED"}) = 1]_vars

\* at most one lane is green in every state of the application (the order in
\* which the first loop of determine_traffic_lights visits the lanes is then
\* immaterial)
AtMostOneGreen == Cardinality(Greens) <= 1

\* C20: a lane with emergency_vehicle = true at the start of a control cycle
\* is the green lane at the end of that cycle, the lowest-numbered one when
\* several lanes are flagged, whatever the vehicle counts.
C20_EmergencyPreemption ==
    (/\ op = "determine_traffic_lights"
     /\ \E l \in DOMAIN lanes : lanes[l].emergency_vehicle)
        => Greens = {CHOOSE l \in DOMAIN lanes :
                        /\ lanes[l].emergency_vehicle
                        /\ \A k \in DOMAIN lanes : lanes[k].emergency_vehicle => l <= k}

\* min(30 + floor(3 * v / 2), 90)
DocumentedGreenTime(v) ==
    IF 30 + (3 * v) \div 2 < 90 THEN 30 + (3 * v) \div 2 ELSE 90

\* C24: calculate_green_time(v) = min(30 + floor(3v/2), 90) for every integer
\* v >= 0: 30 at 0, 45 at 10, 90 at 40, non-decreasing in v and within
\* [30, 90]; the green time the worker stores for a lane is that value of the
\* count it stores.
C24_GreenTimeFormula ==
    /\ \A v \in Vehicles :
          /\ calculate_green_time(v) = DocumentedGreenTime(v)
          /\ calculate_green_time(v) >= 30
          /\ calculate_green_time(v) <= 90
          /\ v > 0 => calculate_green_time(v - 1) <= calculate_green_time(v)
    /\ calculate_green_time(0) = 30
    /\ calculate_green_time(10) = 45
    /\ calculate_green_time(40) = 90
    /\ \A l \in DOMAIN lanes :
          lanes[l].green_time = DocumentedGreenTime(lanes[l].vehicle_count)

C24_Witness ==
    /\ op = "analysis_worker"
    /\ 1 \in DOMAIN lanes
    /\ lanes[1].vehicle_count = 41
    /\ lanes[1].green_time = 90

\* C28: a call of determine_traffic_lights with no lane registered changes no
\* lane state and adds no transaction to the ledger.
C28_EmptyRegistryNoOp ==
    [][(/\ DOMAIN lanes = {}
        /\ op' = "determine_traffic_lights"
        /\ cycles' = cycles + 1)
          => (/\ lanes' = lanes
              /\ previous_signal_states' = previous_signal_states
              /\ accepted' = accepted
              /\ chain' = chain
              /\ pending_transactions' = pending_transactions)]_vars

C28_Witness ==
    /\ op = "determine_traffic_lights"
    /\ cycles = 2
    /\ analysis_running
    /\ DOMAIN lanes = {}
    /\ Len(accepted) = 1

\* C29: at startup the first lane in configured order is green and all others
\* are red, and one transaction per lane recording that initial state is
\* added to the ledger.
C29_InitialSeed ==
    (op = "determine_traffic_lights" /\ cycles = 1)
        => (/\ Greens = {CHOOSE l \in DOMAIN lanes : \A k \in DOMAIN lanes : l <= k}
            /\ \A l \in DOMAIN lanes :
                  Cardinality({k \in 1..Len(accepted) :
                      /\ accepted[k].lane_id = l
                      /\ accepted[k].signal_state =
                            IF lanes[l].is_green THEN "GREEN" ELSE "RED"}) = 1)

\* C21: while the active road has an emergency vehicle, the expiry of its
\* green_time does not take the green away from it: the green-time check turns
\* no road red or green and leaves it the active road.
C21_EmergencyOverridesExpiry ==
    [][(/\ sched_pc = "expiry"
        /\ sched_pc' = "emergency"
        /\ hasEmergencyVehicle[active_road])
          => (active_road' = active_road /\ road_is_green' = road_is_green)]_vars

\* C22: when the active road's green_time has elapsed since it turned green
\* and no road has an emergency vehicle, the active road is turned red, its
\* ring successor (1 -> 2 -> 3 -> 4 -> 1) is turned green and becomes the
\* active road, and the green timer restarts.
C22_RoundRobinExpiry ==
    [][(/\ sched_pc = "expiry"
        /\ sched_pc' = "emergency"
        /\ green_elapsed > road_green_time[active_road]
        /\ \A r \in Roads : ~hasEmergencyVehicle[r])
          => LET succ == (active_road % 4) + 1
             IN /\ active_road' = succ
                /\ ~road_is_green'[active_road]
                /\ road_is_green'[succ]
                /\ \A r \in Roads \ {active_road, succ} :
                      road_is_green'[r] = road_is_green[r]
                /\ green_elapsed' = 0]_vars

C22_Witness ==
    /\ op = "expiry_check"
    /\ ret = "True"
    /\ active_road = 1
    /\ road_is_green = [r \in Roads |-> r = 1]
    /\ green_elapsed = 0
    /\ \A r \in Roads : ~hasEmergencyVehicle[r]

\* C23: in every infinite run of the control loop with no emergency vehicle,
\* every registered lane is green infinitely often, also a lane whose vehicle
\* count stays lower than another lane's.
C23_NoStarvation ==
    \A l \in LaneIds :
        []<>(~analysis_running \/ l \notin DOMAIN lanes \/ lanes[l].is_green)

\* a sequence's number of entries equal to x
Occurrences(seq, x) == Cardinality({i \in 1..Len(seq) : seq[i] = x})

\* C25: the ledger's mutations are serialized among the worker's arbitration,
\* the arbitration of start-analysis and the manual mine request, so that no
\* accepted transaction is lost from the ledger or committed to it twice:
\* whenever no mine request is under way, every accepted transaction is in
\* the blocks after the genesis block and the pool together exactly as many
\* times as it was accepted.
C25_LedgerSerialized ==
    route_pc = "idle" =>
        \A i \in 1..Len(accepted) :
            Occurrences(FlattenTx(SubSeq(chain, 2, Len(chain))) \o pending_transactions,
                        accepted[i])
                = Occurrences(accepted, accepted[i])

\* C26: every execution of determine_traffic_lights is mutually exclusive
\* with every write of the lane registry: between the first read and the last
\* write of a call no worker update, upload or removal changes the registry.
\* Here for the call start_analysis makes: while it stands between its two
\* parts, no step of another thread's registry write changes lanes.
C26_DecisionExclusive ==
    [][(/\ start_pc = "select"
        /\ op' \in {"analysis_worker", "upload_video", "remove_video"})
           => lanes' = lanes]_vars

\* C27: a single scheduler loop drives arbitration: whatever the sequence and
\* interleaving of start-analysis, stop-analysis and reset requests, at most
\* one analysis_worker thread is inside its loop, running arbitration cycles,
\* at any time.
C27_SingleWorkerLoop ==
    Cardinality({w \in Threads : worker_pc[w] = "loop"}) <= 1

\* the hash the block has with nonce n
HashAtNonce(b, n) == calculate_hash([b EXCEPT !.nonce = n])

\* C30: the proof-of-work search terminates for every non-negative integer
\* difficulty.  A search ends only at a nonce whose hash has `difficulty`
\* leading zero characters, so while a search is under way such a nonce lies
\* ahead of it; the digests of the model repeat after HashMod nonces, so one
\* lies among the next HashMod.
C30_SearchTerminates ==
    pow_pc = "while" =>
        \E k \in 0..HashMod :
            Take(HashAtNonce(pow_block[1], pow_block[1].nonce + k).head, pow_difficulty)
                = Zeros(pow_difficulty)

\* C31: add_transaction never throws: for every input transaction, one with
\* malformed fields or with metadata that cannot be serialized included, the
\* call ends by returning True or False, also when it triggers auto-mining.
C31_AddNeverThrows ==
    op = "add_transaction" => ret \in {"True", "False"}

\* the registry of the scenario
ScenarioLanes ==
    /\ DOMAIN lanes = LaneIds
    /\ \A l \in LaneIds : lanes[l].vehicle_count = ScenarioCounts[l]

\* the transactions a step adds to the ledger
NewTxs == SubSeq(accepted', Len(accepted) + 1, Len(accepted'))

\* C32: with lanes {1: 5, 2: 5, 3: 12, 4: 0}, block_size 2 and difficulty 1,
\* an arbitration cycle leaves lane 3 the only green lane, adds a RED
\* transaction for every lane that was green and a GREEN transaction for lane
\* 3, and mines a block as soon as 2 transactions have accumulated: the pool
\* never keeps 2, and every mined block has a hash that starts with '0'.
C32_EndToEndScenario ==
    [][(/\ ScenarioLanes
        /\ analysis_running
        /\ cycles' = cycles + 1)
           => (/\ \A l \in LaneIds : lanes'[l].is_green = (l = 3)
               /\ \A l \in LaneIds :
                      lanes[l].is_green =>
                          \E i \in 1..Len(NewTxs) :
                              /\ NewTxs[i].lane_id = l
                              /\ NewTxs[i].signal_state = "RED"
               /\ \E i \in 1..Len(NewTxs) :
                      /\ NewTxs[i].lane_id = 3
                      /\ NewTxs[i].signal_state = "GREEN"
                      /\ NewTxs[i].vehicle_count = 12
               /\ Len(pending_transactions') < ScenarioBlockSize
               /\ mined' - mined
                      = (Len(pending_transactions) + Len(NewTxs)) \div ScenarioBlockSize
               /\ \A i \in 2..Len(chain') :
                      Take(chain'[i].hash.head, ScenarioDifficulty)
                          = Zeros(ScenarioDifficulty))]_vars

\* a cycle of the scenario has run: lane 3 is green, its GREEN record is the
\* last transaction accepted and a block has been mined
C32_Witness ==
    /\ op = "determine_traffic_lights"
    /\ ScenarioLanes
    /\ lanes[3].is_green
    /\ cycles > 1
    /\ mined > 0
    /\ Len(accepted) > 0
    /\ accepted[Len(accepted)].lane_id = 3
    /\ accepted[Len(accepted)].signal_state = "GREEN"

\* C33: only one lane is green at a time in every reachable state of the
\* running application, the states inside a cycle included: under any
\* interleaving of the worker's arbitration cycles, the arbitration call of
\* start-analysis and the writes of the registry, no state has two lanes
\* with is_green = true.
C33_OneGreenInEveryState ==
    Cardinality({l \in DOMAIN lanes : lanes[l].is_green}) <= 1

\* C34: the chain stays valid under concurrent mining: for any interleaving
\* of the arbitration's recording of a transaction with the manual mine
\* request, every block after the genesis block has previous_hash equal to
\* the hash of the block before it, and no two blocks share an index.
C34_ChainLinkedUnderRace ==
    /\ \A i \in 2..Len(chain) : chain[i].previous_hash = chain[i - 1].hash
    /\ \A i, j \in 1..Len(chain) : i # j => chain[i].index # chain[j].index

\* C35: for any serial sequence of add_transaction and
\* mine_pending_transactions calls, every block's index equals its position
\* in chain counted from 0, the genesis block has index 0 and the all-zero
\* previous_hash of the digest's length, and every mined block holds between
\* 1 and block_size transactions.
C35_IndexAndBlockShape ==
    /\ \A i \in 1..Len(chain) : chain[i].index = i - 1
    /\ chain[1].previous_hash = [head |-> Zeros(DigestLen), tail |-> <<>>]
    /\ \A i \in 2..Len(chain) :
           /\ Len(chain[i].transactions) >= 1
           /\ Len(chain[i].transactions) <= block_size

\* two blocks mined, one short of block_size and one full
C35_Witness ==
    /\ Len(chain) >= 3
    /\ block_size = 2
    /\ \E i \in 2..Len(chain) : Len(chain[i].transactions) = 1
    /\ \E i \in 2..Len(chain) : Len(chain[i].transactions) = 2

\* C36: the proof-of-work invariant survives chain replacement: after any
\* sequence of add_transaction, mine_pending_transactions and accepted
\* replace_chain calls, every block after the genesis block has a hash with
\* `difficulty` leading zero characters.
C36_ProofOfWorkAfterReplace ==
    (op = "replace_chain" /\ ret = "True")
        => \A i \in 2..Len(chain) :
               Take(chain[i].hash.head, difficulty) = Zeros(difficulty)

\* the positions of the accepted transactions of a lane
AcceptedOf(lane_id) == {k \in 1..Len(accepted) : accepted[k].lane_id = lane_id}

\* previous_signal_states holds, for every lane, the state of the last
\* accepted transaction of the lane, and nothing for a lane without one
DedupTracksLedger ==
    \A l \in RecordLanes :
        IF AcceptedOf(l) = {} THEN l \notin DOMAIN previous_signal_states
        ELSE /\ l \in DOMAIN previous_signal_states
             /\ previous_signal_states[l]
                    = CurrentState(accepted[SetMax(AcceptedOf(l))].signal_state,
                                   accepted[SetMax(AcceptedOf(l))].vehicle_count,
                                   accepted[SetMax(AcceptedOf(l))].emergency_vehicle)

\* C37: the dedup record tracks the ledger: after every call of
\* record_blockchain_transaction, previous_signal_states of a lane is the
\* (signal_state, vehicle_count, emergency_vehicle) of the last transaction
\* of the lane that add_transaction accepted, and the call leaves it as it
\* was when add_transaction rejects or when the call is suppressed as a
\* duplicate.
C37_DedupTracksLedger ==
    [][\A lane_id \in RecordLanes, signal_state \in RecordStates,
          vehicle_count \in Counts, emergency_vehicle \in BOOLEAN :
           RecordCall(lane_id, signal_state, vehicle_count, emergency_vehicle)
              => (/\ DedupTracksLedger'
                  /\ ((\/ signal_state \notin {"GREEN", "RED", "YELLOW", "INIT"}
                       \/ (/\ lane_id \in DOMAIN previous_signal_states
                           /\ previous_signal_states[lane_id]
                                  = CurrentState(signal_state, vehicle_count,
                                                 emergency_vehicle)))
                         => (/\ previous_signal_states' = previous_signal_states
                             /\ accepted' = accepted)))]_vars

\* lane 1 was recorded GREEN and then RED: its entry was overwritten
C37_Witness ==
    /\ op = "record_blockchain_transaction"
    /\ Len(accepted) >= 2
    /\ accepted[1].lane_id = 1
    /\ accepted[1].signal_state = "GREEN"
    /\ 1 \in DOMAIN previous_signal_states
    /\ previous_signal_states[1].signal_state = "RED"
    /\ 2 \notin DOMAIN previous_signal_states

\* the 'blockchain_block_mined' events a call of record_blockchain_transaction
\* emits in the current state
NoticesOf(lane_id, signal_state, vehicle_count, emergency_vehicle) ==
    record_blockchain_transaction(AppState, lane_id, signal_state, vehicle_count,
        calculate_green_time(vehicle_count), emergency_vehicle,
        difficulty, block_size, now).notices

\* C38: whenever recording a transaction through
\* record_blockchain_transaction causes a block to be mined, the block-mined
\* notification (the 'Mined block' system log and the
\* 'blockchain_block_mined' event) is emitted for that block: a call that
\* mines n blocks emits n notifications.
C38_MinedBlockNotified ==
    [][\A lane_id \in RecordLanes, signal_state \in RecordStates,
          vehicle_count \in Counts, emergency_vehicle \in BOOLEAN :
           RecordCall(lane_id, signal_state, vehicle_count, emergency_vehicle)
              => NoticesOf(lane_id, signal_state, vehicle_count, emergency_vehicle)
                     = mined' - mined]_vars

\* C39: every transaction emitted by arbitration carries a green_time equal
\* to calculate_green_time of the vehicle_count it carries, the registry
\* keeping lanes[l].green_time = calculate_green_time(lanes[l].vehicle_count)
\* in every state that arbitration can read.
C39_GreenTimeOfCount ==
    \A i \in 1..Len(accepted) :
        accepted[i].green_time = calculate_green_time(accepted[i].vehicle_count)

\* C40: every transaction accepted by add_transaction is eventually
\* contained in a block of chain, in every run where the control loop keeps
\* cycling (the i-th accepted transaction is the i-th of the blocks after
\* genesis, the pool being served first in, first out).
C40_EventuallyInBlock ==
    \A i \in 1..MaxTx :
        (Len(accepted) >= i) ~> (Len(FlattenTx(SubSeq(chain, 2, Len(chain)))) >= i)

====
